---- MODULE Spec2Model ----
(***************************************************************************)
(* A model of crib_dragger.py: the partial-text buffer (PartialString),    *)
(* the wrapped layout (TextArea.update_lines), the reactive cursor         *)
(* (cursor_x / cursor_y with their validators), the single-cell edits      *)
(* (replace_char_at_cursor) and the Changed message handled by the         *)
(* application's callback bridge (CribDragger.on_text_area_changed).       *)
(*                                                                         *)
(* Rows and columns are 0-based as in the source; TLA+ sequences are       *)
(* 1-based, so line y is lines[y + 1] and buffer cell i is value[i + 1].   *)
(***************************************************************************)
EXTENDS Integers, Sequences, FiniteSets, TLC

VARIABLES
    text,        \* CribDragger.text / TextArea.text: the reference text
    on_change,   \* CribDragger.on_change: which callback the host supplied
    lines,       \* TextArea.lines: the display lines
    window_len,  \* the argument of the most recent update_lines call
    updates,     \* how many update_lines calls have run
    cursor_x,    \* TextArea.cursor_x (reactive)
    cursor_y,    \* TextArea.cursor_y (reactive)
    value,       \* the cells of TextArea.value (a PartialString)
    queue,       \* Changed messages posted and not yet handled by the App
    err,         \* "ok", or the exception that ended the session
    hist         \* the events handled so far (recorded by SpecScenario only)

vars == <<text, on_change, lines, window_len, updates, cursor_x, cursor_y,
          value, queue, err, hist>>

----------------------------------------------------------------------------
(* Bounds of the model.                                                    *)

MaxTextLen == 2     \* reference texts of Spec and SpecEdit: 0..MaxTextLen characters
MaxNavLen == 3      \* reference texts of SpecNav: 0..MaxNavLen characters
MaxWrapLen == 4     \* reference texts of SpecWrap have 0..MaxWrapLen characters
MaxWidth == 2       \* widths handed to update_lines are 0..MaxWidth
MaxUpdates == 2     \* update_lines runs at most this many times
MaxQueue == 2       \* at most this many Changed messages are in flight
MaxDepth == 6       \* nesting of reactive assignments before RecursionError
MaxRow == 4         \* a click is followed while it leaves |cursor_y| <= MaxRow

----------------------------------------------------------------------------
(* Characters, cells and texts.                                            *)

LF == "\n"
CR == "\r"
None == "None"                   \* an unknown cell of PartialString._value
Keys == {"X"}                    \* the printable characters that are typed
NUM_LINES == 3                   \* screen rows per display line

SeqsUpTo(S, n) == UNION {[1..k -> S] : k \in 0..n}

\* "Test\nTest\nTEsst", the text of the __main__ block
MainText == <<"T", "e", "s", "t", LF, "T", "e", "s", "t", LF,
              "T", "E", "s", "s", "t">>

ChunkText == <<"A", "A", "A", "A">>

Min(a, b) == IF a < b THEN a ELSE b

----------------------------------------------------------------------------
(* str.splitlines(): a line ends at "\n", at "\r" or at "\r\n" (one        *)
(* terminator); the characters after the last terminator are a line only   *)
(* when there are any.                                                     *)

RECURSIVE SplitFrom(_, _, _, _)
SplitFrom(t, i, cur, acc) ==
    IF i > Len(t) THEN (IF cur = <<>> THEN acc ELSE Append(acc, cur))
    ELSE IF t[i] = LF THEN SplitFrom(t, i + 1, <<>>, Append(acc, cur))
    ELSE IF t[i] = CR
         THEN SplitFrom(t, IF i + 1 <= Len(t) /\ t[i + 1] = LF THEN i + 2 ELSE i + 1,
                        <<>>, Append(acc, cur))
    ELSE SplitFrom(t, i + 1, Append(cur, t[i]), acc)

splitlines(t) == SplitFrom(t, 1, <<>>, <<>>)

\* [x[i:i+m] for i in range(0, len(x), m)], m > 0
RECURSIVE Chunks(_, _)
Chunks(x, m) ==
    IF Len(x) = 0 THEN <<>>
    ELSE IF Len(x) <= m THEN <<x>>
    ELSE <<SubSeq(x, 1, m)>> \o Chunks(SubSeq(x, m + 1, Len(x)), m)

\* the lines one pass of the loop of update_lines adds, max_line_length > 0
RECURSIVE WrapLines(_, _)
WrapLines(raw, m) ==
    IF raw = <<>> THEN <<>>
    ELSE (IF Len(Head(raw)) >= m THEN Chunks(Head(raw), m) ELSE <<Head(raw)>>)
         \o WrapLines(Tail(raw), m)

(* update_lines(window_len) on the list ls: range() with a step of zero    *)
(* raises ValueError at the first raw line, and max() of an empty list     *)
(* raises ValueError after the loop.                                       *)
update_lines(ls, t, w) ==
    LET m == w * 2
        raw == splitlines(t)
    IN  IF m = 0 /\ raw # <<>> THEN [lines |-> ls, err |-> "ValueError"]
        ELSE LET new == ls \o WrapLines(raw, m)
             IN  [lines |-> new, err |-> IF new = <<>> THEN "ValueError" ELSE "ok"]

----------------------------------------------------------------------------
(* The reactive cursor.  Assigning a reactive attribute reads the current  *)
(* value, runs validate_<name> on the new one (which may itself assign     *)
(* the other attribute), and stores the result when it differs from the    *)
(* value read at the start.  A cursor is [x, y, err]; d is the nesting     *)
(* still allowed.                                                          *)

\* len(self.lines[y]) with Python's indexing: -1 is the last line
HasLine(ls, y) == -Len(ls) <= y /\ y < Len(ls)
LineAt(ls, y) == IF y >= 0 THEN ls[y + 1] ELSE ls[Len(ls) + y + 1]

\* the one element of a singleton: Only({F(v) : v \in {e}}) is F(e) with e
\* evaluated once, as a local variable of the source is
Only(S) == CHOOSE r \in S : TRUE

RECURSIVE SetCursorX(_, _, _, _)
RECURSIVE SetCursorY(_, _, _, _)

validate_cursor_y(ls, c, y0, d) ==
    LET y1 == IF y0 < 0 THEN 0 ELSE y0
        y2 == IF y1 >= Len(ls) THEN Len(ls) - 1 ELSE y1
    IN  IF ~HasLine(ls, y2) THEN [c |-> [c EXCEPT !.err = "IndexError"], ret |-> y2]
        ELSE LET line == LineAt(ls, y2)
                 y3 == IF Len(line) = 0 THEN y2 + (y2 - c.y) ELSE y2
             IN  IF c.x > Len(line)
                 THEN [c |-> SetCursorX(ls, c, Len(line) - 1, d), ret |-> y3]
                 ELSE [c |-> c, ret |-> y3]

\* validate_cursor_x_rest without the decrement on the last row
validate_cursor_x_rest_no_decrement(ls, c, c1, x0, d) ==
    IF c1.err # "ok" THEN [c |-> c1, ret |-> x0]
    ELSE IF ~HasLine(ls, c1.y)
         THEN [c |-> [c1 EXCEPT !.err = "IndexError"], ret |-> x0]
    ELSE LET ll == Len(LineAt(ls, c1.y))
             x1 == IF x0 >= 0 THEN x0
                   ELSE IF c.y = c1.y THEN 0
                   ELSE ll - 1
         IN  IF x1 > ll - 1
             THEN [c |-> SetCursorY(ls, c1, c1.y + 1, d), ret |-> 0]
             ELSE [c |-> c1, ret |-> x1]

\* validate_cursor_x from its second "if" on; c1 is the cursor after the
\* first one, c the cursor before it
validate_cursor_x_rest(ls, c, c1, x0, d) ==
    IF c1.err # "ok" THEN [c |-> c1, ret |-> x0]
    ELSE IF ~HasLine(ls, c1.y)
         THEN [c |-> [c1 EXCEPT !.err = "IndexError"], ret |-> x0]
    ELSE LET ll == Len(LineAt(ls, c1.y))
             x1 == IF x0 >= 0 THEN x0
                   ELSE IF c.y = c1.y THEN 0
                   ELSE ll - 1
             x2 == IF c1.y + 1 = Len(ls) /\ x1 >= ll THEN x1 - 1 ELSE x1
         IN  IF x2 > ll - 1
             THEN [c |-> SetCursorY(ls, c1, c1.y + 1, d), ret |-> 0]
             ELSE [c |-> c1, ret |-> x2]

validate_cursor_x(ls, c, x0, d) ==
    Only({validate_cursor_x_rest(ls, c, c1, x0, d) :
            c1 \in {IF x0 < 0 THEN SetCursorY(ls, c, c.y - 1, d) ELSE c}})

\* the reactive assignment once validate_<name> has returned r
Store(old, r, field) ==
    IF r.c.err # "ok" THEN r.c
    ELSE IF old # r.ret THEN [r.c EXCEPT ![field] = r.ret]
    ELSE r.c

SetCursorX(ls, c, v, d) ==
    IF c.err # "ok" THEN c
    ELSE IF d = 0 THEN [c EXCEPT !.err = "RecursionError"]
    ELSE Only({Store(c.x, r, "x") : r \in {validate_cursor_x(ls, c, v, d - 1)}})

SetCursorY(ls, c, v, d) ==
    IF c.err # "ok" THEN c
    ELSE IF d = 0 THEN [c EXCEPT !.err = "RecursionError"]
    ELSE Only({Store(c.y, r, "y") : r \in {validate_cursor_y(ls, c, v, d - 1)}})

Cursor == [x |-> cursor_x, y |-> cursor_y, err |-> "ok"]

----------------------------------------------------------------------------
(* PartialString and the edit.                                             *)

\* PartialString(length): every cell unknown
PartialString(n) == [i \in 1..n |-> None]

\* sum([len(x)+1 for x in self.lines[:y]]); a negative y slices from the end
RECURSIVE SumLens(_, _)
SumLens(ls, k) == IF k = 0 THEN 0 ELSE SumLens(ls, k - 1) + Len(ls[k]) + 1

\* RowStart without the slot of each line's terminator
RECURSIVE SumLensOnly(_, _)
SumLensOnly(ls, k) == IF k = 0 THEN 0 ELSE SumLensOnly(ls, k - 1) + Len(ls[k])

RowStart_no_terminator(ls, y) ==
    SumLensOnly(ls, IF y >= 0 THEN Min(y, Len(ls))
                    ELSE IF Len(ls) + y > 0 THEN Len(ls) + y ELSE 0)

RowStart(ls, y) ==
    SumLens(ls, IF y >= 0 THEN Min(y, Len(ls))
                ELSE IF Len(ls) + y > 0 THEN Len(ls) + y ELSE 0)

\* list.__setitem__: an index in -len..len-1 is accepted, -1 is the last cell
HasCell(v, i) == -Len(v) <= i /\ i < Len(v)
CellAt(v, i) == IF i >= 0 THEN i + 1 ELSE Len(v) + i + 1

(* replace_char_at_cursor(char) with the cursor at c: the new cells and    *)
(* the Changed message posted, or IndexError.  previous is a deep copy;    *)
(* current is the live buffer object (alias).  after records the cells     *)
(* right after the write for the properties below; the program keeps no    *)
(* such field.                                                             *)
replace_char_at_cursor(ls, v, c, char) ==
    LET index == RowStart(ls, c.y) + c.x
    IN  IF ~HasCell(v, index) THEN [err |-> "IndexError", value |-> v, msg |-> <<>>]
        ELSE LET new == [v EXCEPT ![CellAt(v, index)] = char]
             IN  [err |-> "ok", value |-> new,
                  msg |-> <<[previous |-> v, alias |-> TRUE, current |-> <<>>,
                             after |-> new]>>]

----------------------------------------------------------------------------
(* The host's callback.  The program accepts any callable; the model       *)
(* draws it from these.                                                    *)

Callbacks == {"none", "same", "fill", "short", "short_init"}

\* on_change() with no arguments, called by compose
InitialValue(cb, t) ==
    IF cb = "short_init" THEN PartialString(Len(t) - 1) ELSE PartialString(Len(t))

\* whether on_change(previous, current) returns the object it was given
ReturnsCurrent(cb) == cb \in {"same", "short_init"}

Differs(p, c) == {i \in 1..Min(Len(p), Len(c)) : p[i] # c[i]}

\* the cells of the buffer on_change(previous, current) returns
Callback(cb, p, c) ==
    IF cb = "fill"
    THEN (IF Differs(p, c) = {} THEN c
          ELSE LET i == CHOOSE i \in Differs(p, c) : \A j \in Differs(p, c) : i <= j
               IN  [k \in 1..Len(c) |-> c[i]])
    ELSE IF cb = "short" THEN SubSeq(c, 1, Len(c) - 1)
    ELSE c

----------------------------------------------------------------------------
(* The state after CribDragger(text, on_change) and compose().             *)

Texts == SeqsUpTo({"a", LF}, MaxTextLen)
NavTexts == SeqsUpTo({"a", LF}, MaxNavLen)
WrapTexts == SeqsUpTo({"a", LF, CR}, MaxWrapLen)
ScenarioTexts == {MainText, ChunkText}

Constructed(t, cb) ==
    /\ text = t
    /\ on_change = cb
    /\ lines = <<>>
    /\ window_len = 0
    /\ updates = 0
    /\ cursor_x = 0
    /\ cursor_y = 0
    /\ value = InitialValue(cb, t)
    /\ queue = <<>>
    /\ err = "ok"
    /\ hist = <<>>

Init == \E t \in Texts, cb \in Callbacks : Constructed(t, cb)

----------------------------------------------------------------------------
(* The handlers.  Each is the whole handler; *_do leaves hist to the       *)
(* specification.  An exception ends the session: no handler runs once     *)
(* err is set.  Keys and clicks reach the widget after its first Resize.   *)

Running == err = "ok"
Mounted == Running /\ updates > 0

SetCursor(c) ==
    /\ cursor_x' = c.x
    /\ cursor_y' = c.y
    /\ err' = c.err

\* on_resize(e): update_lines(e.size.width)
on_resize_do(w) ==
    /\ Running
    /\ updates < MaxUpdates
    /\ \E r \in {update_lines(lines, text, w)} :
           lines' = r.lines /\ err' = r.err
    /\ window_len' = w
    /\ updates' = updates + 1
    /\ UNCHANGED <<text, on_change, cursor_x, cursor_y, value, queue>>

\* get_content_width(container, viewport): update_lines, then the call of
\* super().get_content_width() without its two arguments raises TypeError
get_content_width_do(cw, vw) ==
    /\ Running
    /\ updates < MaxUpdates
    /\ \E r \in {update_lines(lines, text, Min(cw, vw))} :
           lines' = r.lines /\ err' = IF r.err # "ok" THEN r.err ELSE "TypeError"
    /\ window_len' = Min(cw, vw)
    /\ updates' = updates + 1
    /\ UNCHANGED <<text, on_change, cursor_x, cursor_y, value, queue>>

action_cursor_down_do ==
    /\ Mounted
    /\ \E c \in {SetCursorY(lines, Cursor, cursor_y + 1, MaxDepth)} : SetCursor(c)
    /\ UNCHANGED <<text, on_change, lines, window_len, updates, value, queue>>

action_cursor_up_do ==
    /\ Mounted
    /\ \E c \in {SetCursorY(lines, Cursor, cursor_y - 1, MaxDepth)} : SetCursor(c)
    /\ UNCHANGED <<text, on_change, lines, window_len, updates, value, queue>>

action_cursor_left_do ==
    /\ Mounted
    /\ \E c \in {SetCursorX(lines, Cursor, cursor_x - 1, MaxDepth)} : SetCursor(c)
    /\ UNCHANGED <<text, on_change, lines, window_len, updates, value, queue>>

action_cursor_right_do ==
    /\ Mounted
    /\ \E c \in {SetCursorX(lines, Cursor, cursor_x + 1, MaxDepth)} : SetCursor(c)
    /\ UNCHANGED <<text, on_change, lines, window_len, updates, value, queue>>

\* the message as posted, with the handler that posted it (op, kept for the
\* properties below; the program's message has no such field)
Posted(msg, op) ==
    [i \in 1..Len(msg) |->
        [previous |-> msg[i].previous, alias |-> msg[i].alias,
         current |-> msg[i].current, after |-> msg[i].after, op |-> op]]

\* the cursor moves, then the cell under the moved cursor is replaced
MoveThenReplace(dx, char, op) ==
    \E c \in {SetCursorX(lines, Cursor, cursor_x + dx, MaxDepth)} :
        IF c.err # "ok"
        THEN SetCursor(c) /\ UNCHANGED <<value, queue>>
        ELSE \E r \in {replace_char_at_cursor(lines, value, c, char)} :
                 /\ cursor_x' = c.x
                 /\ cursor_y' = c.y
                 /\ err' = r.err
                 /\ value' = r.value
                 /\ queue' = queue \o Posted(r.msg, op)

\* the cell under the cursor is replaced, then the cursor moves
ReplaceThenMove(dx, char, op) ==
    \E r \in {replace_char_at_cursor(lines, value, Cursor, char)} :
        IF r.err # "ok"
        THEN err' = r.err /\ UNCHANGED <<cursor_x, cursor_y, value, queue>>
        ELSE \E c \in {SetCursorX(lines, Cursor, cursor_x + dx, MaxDepth)} :
                 /\ SetCursor(c)
                 /\ value' = r.value
                 /\ queue' = queue \o Posted(r.msg, op)

action_delete_left_do ==
    /\ Mounted
    /\ Len(queue) < MaxQueue
    /\ MoveThenReplace(-1, None, "delete_left")
    /\ UNCHANGED <<text, on_change, lines, window_len, updates>>

\* action_delete_right with its two statements in the other order
action_delete_right_clear_first ==
    /\ Mounted
    /\ Len(queue) < MaxQueue
    /\ ReplaceThenMove(1, None, "delete_right")
    /\ UNCHANGED <<text, on_change, lines, window_len, updates>>

action_delete_right_do ==
    /\ Mounted
    /\ Len(queue) < MaxQueue
    /\ MoveThenReplace(1, None, "delete_right")
    /\ UNCHANGED <<text, on_change, lines, window_len, updates>>

\* _on_key with a printable character that no binding handles
on_key_do(char) ==
    /\ Mounted
    /\ Len(queue) < MaxQueue
    /\ ReplaceThenMove(1, char, "key")
    /\ UNCHANGED <<text, on_change, lines, window_len, updates>>

(* _on_click at content coordinates (click_x, click_y), the scroll offset  *)
(* included.  Every cell of str(self.value) is one column wide, so the     *)
(* scan stops at index click_x, or falls through to value.length.          *)
on_click_do(click_x, click_y) ==
    /\ Mounted
    /\ IF click_y % NUM_LINES # 1
       THEN UNCHANGED <<cursor_x, cursor_y, err>>
       ELSE LET index == IF click_x < Len(value) THEN click_x ELSE Len(value)
            IN  \E c1 \in {SetCursorY(lines, Cursor, click_y \div NUM_LINES, MaxDepth)} :
                \E c2 \in {SetCursorX(lines, c1, index, MaxDepth)} : SetCursor(c2)
    /\ -MaxRow <= cursor_y' /\ cursor_y' <= MaxRow
    /\ UNCHANGED <<text, on_change, lines, window_len, updates, value, queue>>

(* on_text_area_changed(e) for the oldest message in flight.  e.current is *)
(* the widget's buffer object when the message still aliases it.  When the *)
(* callback returns a new object, that object replaces the widget's        *)
(* buffer and the messages still in flight keep the old one, which no      *)
(* edit reaches any more.                                                  *)
Current(m) == IF m.alias THEN value ELSE m.current

on_text_area_changed_do ==
    /\ Running
    /\ queue # <<>>
    /\ LET e == Head(queue)
       IN  IF on_change = "none"
           THEN value' = value /\ queue' = Tail(queue)
           ELSE IF ReturnsCurrent(on_change)
           THEN value' = Current(e) /\ queue' = Tail(queue)
           ELSE /\ value' = Callback(on_change, e.previous, Current(e))
                /\ queue' = [i \in 1..(Len(queue) - 1) |->
                                 IF queue[i + 1].alias
                                 THEN [queue[i + 1] EXCEPT !.alias = FALSE,
                                                           !.current = value]
                                 ELSE queue[i + 1]]
    /\ UNCHANGED <<text, on_change, lines, window_len, updates,
                   cursor_x, cursor_y, err>>

----------------------------------------------------------------------------
(* The program: every event of the widget and of the application.          *)

Widths == 0..MaxWidth
ClickXs == 0..MaxTextLen
ClickYs == 0..(NUM_LINES * (MaxTextLen + 1))

on_resize == \E w \in Widths : on_resize_do(w) /\ UNCHANGED hist
get_content_width ==
    \E cw \in Widths, vw \in Widths : get_content_width_do(cw, vw) /\ UNCHANGED hist
action_cursor_down == action_cursor_down_do /\ UNCHANGED hist
action_cursor_up == action_cursor_up_do /\ UNCHANGED hist
action_cursor_left == action_cursor_left_do /\ UNCHANGED hist
action_cursor_right == action_cursor_right_do /\ UNCHANGED hist
action_delete_left == action_delete_left_do /\ UNCHANGED hist
action_delete_right == action_delete_right_do /\ UNCHANGED hist
on_key == \E char \in Keys : on_key_do(char) /\ UNCHANGED hist
on_click ==
    \E click_x \in ClickXs, click_y \in ClickYs :
        on_click_do(click_x, click_y) /\ UNCHANGED hist
on_text_area_changed == on_text_area_changed_do /\ UNCHANGED hist

Next ==
    \/ on_resize
    \/ get_content_width
    \/ action_cursor_down
    \/ action_cursor_up
    \/ action_cursor_left
    \/ action_cursor_right
    \/ action_delete_left
    \/ action_delete_right
    \/ on_key
    \/ on_click
    \/ on_text_area_changed

Spec == Init /\ [][Next]_vars

----------------------------------------------------------------------------
(* Navigation alone, and navigation with edits, without a callback.        *)

InitNav == \E t \in NavTexts : Constructed(t, "none")
InitEdit == \E t \in Texts : Constructed(t, "none")

NextNav ==
    \/ on_resize
    \/ action_cursor_down
    \/ action_cursor_up
    \/ action_cursor_left
    \/ action_cursor_right

SpecNav == InitNav /\ [][NextNav]_vars

NextEdit ==
    \/ on_resize
    \/ action_cursor_down
    \/ action_cursor_up
    \/ action_cursor_left
    \/ action_cursor_right
    \/ action_delete_left
    \/ action_delete_right
    \/ on_key
    \/ on_text_area_changed

SpecEdit == InitEdit /\ [][NextEdit]_vars

(* The layout alone, on texts that also hold carriage returns.             *)

InitWrap == \E t \in WrapTexts : Constructed(t, "none")

NextWrap ==
    \/ on_resize
    \/ get_content_width

SpecWrap == InitWrap /\ [][NextWrap]_vars

(* The two texts of the scenarios, from the first Resize on, with the     *)
(* input events recorded in hist.                                          *)

ScenarioStarts == {<<MainText, 100>>, <<ChunkText, 1>>}

InitScenario ==
    \E st \in ScenarioStarts :
        /\ text = st[1]
        /\ on_change = "none"
        /\ lines = update_lines(<<>>, st[1], st[2]).lines
        /\ window_len = st[2]
        /\ updates = 1
        /\ cursor_x = 0
        /\ cursor_y = 0
        /\ value = InitialValue("none", st[1])
        /\ queue = <<>>
        /\ err = "ok"
        /\ hist = <<>>

\* "right" four times, then the character: the events of scenario 2
Scenario2 == <<"right", "right", "right", "right", "X">>

\* as many events are recorded as the scenario has
Record(e) == Len(hist) < Len(Scenario2) /\ hist' = Append(hist, e)

scenario_down == action_cursor_down_do /\ Record("down")
scenario_up == action_cursor_up_do /\ Record("up")
scenario_left == action_cursor_left_do /\ Record("left")
scenario_right == action_cursor_right_do /\ Record("right")
scenario_backspace == action_delete_left_do /\ Record("backspace")
scenario_delete == action_delete_right_do /\ Record("delete")
scenario_key == \E char \in Keys : on_key_do(char) /\ Record(char)

NextScenario ==
    \/ scenario_down
    \/ scenario_up
    \/ scenario_left
    \/ scenario_right
    \/ scenario_backspace
    \/ scenario_delete
    \/ scenario_key
    \/ on_text_area_changed

SpecScenario == InitScenario /\ [][NextScenario]_vars

----------------------------------------------------------------------------
(* PartialString on its own: the accessors and split_lines, called by the  *)
(* host on a buffer paired with the text.  A cell is unknown or holds the  *)
(* character of the text at its position.  hist holds the last call.       *)

\* __getitem__(subscript) on the list of cells
PartialString_getitem(v, i) ==
    IF ~HasCell(v, i) THEN [err |-> "IndexError", ret |-> None]
    ELSE [err |-> "ok", ret |-> v[CellAt(v, i)]]

\* __setitem__(key, value)
PartialString_setitem(v, i, c) ==
    IF ~HasCell(v, i) THEN [err |-> "IndexError", value |-> v]
    ELSE [err |-> "ok", value |-> [v EXCEPT ![CellAt(v, i)] = c]]

\* __delitem__(key): the cell is set to None
PartialString_delitem(v, i) == PartialString_setitem(v, i, None)

\* the loop of split_lines from cell i on; there is no append after the loop
RECURSIVE SplitCells(_, _, _, _, _)
SplitCells(v, i, m, result, current) ==
    IF i > Len(v) THEN result
    ELSE LET flush == v[i] = LF \/ Len(current) = m
             result1 == IF flush THEN Append(result, current) ELSE result
             current1 == IF flush THEN <<>> ELSE current
         IN  IF v[i] = LF THEN SplitCells(v, i + 1, m, result1, current1)
             ELSE SplitCells(v, i + 1, m, result1, Append(current1, v[i]))

split_lines(v, w) == SplitCells(v, 1, w * 2, <<>>, <<>>)

Buffers(t) == {v \in [1..Len(t) -> {None, "a", LF}] :
                 \A i \in 1..Len(t) : v[i] \in {None, t[i]}}

Indices == -(MaxTextLen + 1)..(MaxTextLen + 1)

InitBuffer ==
    \E t \in Texts : \E v \in Buffers(t) :
        /\ text = t
        /\ on_change = "none"
        /\ lines = <<>>
        /\ window_len = 0
        /\ updates = 0
        /\ cursor_x = 0
        /\ cursor_y = 0
        /\ value = v
        /\ queue = <<>>
        /\ err = "ok"
        /\ hist = <<>>

Called(call) ==
    /\ hist' = <<call>>
    /\ UNCHANGED <<text, on_change, lines, window_len, updates,
                   cursor_x, cursor_y, queue>>

buffer_getitem ==
    \E i \in Indices : \E r \in {PartialString_getitem(value, i)} :
        /\ Running
        /\ err' = r.err
        /\ value' = value
        /\ Called([op |-> "get", i |-> i, before |-> value, ret |-> <<r.ret>>])

buffer_setitem ==
    \E i \in Indices, c \in Keys : \E r \in {PartialString_setitem(value, i, c)} :
        /\ Running
        /\ err' = r.err
        /\ value' = r.value
        /\ Called([op |-> "set", i |-> i, before |-> value, ret |-> <<>>])

buffer_delitem ==
    \E i \in Indices : \E r \in {PartialString_delitem(value, i)} :
        /\ Running
        /\ err' = r.err
        /\ value' = r.value
        /\ Called([op |-> "del", i |-> i, before |-> value, ret |-> <<>>])

buffer_split_lines ==
    \E w \in Widths :
        /\ Running
        /\ err' = err
        /\ value' = value
        /\ Called([op |-> "split_lines", i |-> w, before |-> value,
                   ret |-> split_lines(value, w)])

NextBuffer ==
    \/ buffer_getitem
    \/ buffer_setitem
    \/ buffer_delitem
    \/ buffer_split_lines

SpecBuffer == InitBuffer /\ [][NextBuffer]_vars

----------------------------------------------------------------------------
(* Properties.                                                             *)

\* the layout is one wrap of the text in which no line was chunked
PlainLayout == updates = 1 /\ err = "ok" /\ lines = splitlines(text)

InLayout(x, y) ==
    /\ 0 <= y /\ y < Len(lines)
    /\ 0 <= x /\ x <= Len(lines[y + 1])

(* C1: after any sequence of moveLeft, moveRight, moveUp and moveDown on a *)
(* layout with at least one line, 0 <= row < lineCount and                 *)
(* 0 <= column <= length of the line at that row.                          *)
C1_CursorInvariant ==
    (err = "ok" /\ lines # <<>>) => InLayout(cursor_x, cursor_y)

(* C2: no edit writes the buffer cell of a line terminator or a cell past  *)
(* the end of the buffer: the index written lies in [0, length) and is the *)
(* position of a non-terminator character.  Without a callback only edits  *)
(* write cells, so every cell at a terminator's position stays unknown and *)
(* no edit ends in IndexError.                                             *)
IsTerminator(ch) == ch \in {LF, CR}

C2_TerminatorNeverWritten ==
    PlainLayout =>
        \A i \in 1..Len(text) : IsTerminator(text[i]) => value[i] = None

(* C3: on "Test\nTest\nTEsst", all cells unknown, no chunking, cursor at   *)
(* (0,0): after moveRight four times and typing X the cursor is at (1,1)   *)
(* and exactly one cell holds X.  The claim names the cell at linear index *)
(* 4; the code writes the cell at linear index 5.                          *)
AfterScenario2 == text = MainText /\ hist = Scenario2 /\ err = "ok"

OnlyCell(i, ch) == value = [PartialString(Len(text)) EXCEPT ![i + 1] = ch]

C3_Scenario2Index4 ==
    AfterScenario2 => OnlyCell(4, "X") /\ cursor_x = 1 /\ cursor_y = 1

\* C3 amended: the cell at linear index 5 holds X, the cursor is at (1,1)
C3_Scenario2Index5 ==
    (text = MainText /\ hist = Scenario2)
        => err = "ok" /\ OnlyCell(5, "X") /\ cursor_x = 1 /\ cursor_y = 1

C3_Witness == AfterScenario2 /\ value[6] = "X"

(* C4: on a layout of one wrap, an edit with the cursor on character c of  *)
(* display line r writes the buffer cell at that character's position in   *)
(* the reference text; chunks of one raw line have no terminator slot      *)
(* between them.                                                           *)

\* the raw lines of t as [start, len], start the 0-based offset in t
RECURSIVE RawSpans(_, _, _, _)
RawSpans(t, i, start, acc) ==
    IF i > Len(t)
    THEN (IF start < Len(t) THEN Append(acc, [start |-> start, len |-> Len(t) - start])
          ELSE acc)
    ELSE IF IsTerminator(t[i])
    THEN LET nxt == IF t[i] = CR /\ i + 1 <= Len(t) /\ t[i + 1] = LF
                    THEN i + 2 ELSE i + 1
         IN  RawSpans(t, nxt, nxt - 1,
                      Append(acc, [start |-> start, len |-> (i - 1) - start]))
    ELSE RawSpans(t, i + 1, start, acc)

RECURSIVE ChunkSpans(_, _)
ChunkSpans(sp, m) ==
    IF sp.len <= m THEN <<sp>>
    ELSE <<[start |-> sp.start, len |-> m]>>
         \o ChunkSpans([start |-> sp.start + m, len |-> sp.len - m], m)

RECURSIVE LineSpansOf(_, _)
LineSpansOf(raw, m) ==
    IF raw = <<>> THEN <<>>
    ELSE (IF Head(raw).len >= m /\ m > 0 THEN ChunkSpans(Head(raw), m)
          ELSE <<Head(raw)>>)
         \o LineSpansOf(Tail(raw), m)

\* where each display line of wrap(t, w) starts in t
LineSpans(t, w) == LineSpansOf(RawSpans(t, 1, 0, <<>>), 2 * w)

\* this step is the printable key typed with the cursor on a character
TypedOn(x, y) ==
    /\ hist' = Append(hist, "X")
    /\ cursor_x = x /\ cursor_y = y
    /\ InLayout(x, y) /\ x < Len(lines[y + 1])

C4_ChunkIndex ==
    [][\A y \in 0..(Len(lines) - 1), x \in 0..Len(text) :
           TypedOn(x, y) =>
               /\ err' = "ok"
               /\ value' = [value EXCEPT
                               ![LineSpans(text, window_len)[y + 1].start + x + 1] = "X"]
      ]_vars

(* C5: when no line is long enough to be chunked, the display lines of    *)
(* the first wrap, joined with one terminator between consecutive lines,   *)
(* are the reference text; a trailing terminator gives a trailing empty    *)
(* display line.                                                           *)
RECURSIVE Join(_, _)
Join(ls, sep) ==
    IF ls = <<>> THEN <<>>
    ELSE IF Len(ls) = 1 THEN ls[1]
    ELSE ls[1] \o <<sep>> \o Join(Tail(ls), sep)

Unchunked(t, w) ==
    LET raw == RawSpans(t, 1, 0, <<>>)
    IN  \A k \in 1..Len(raw) : raw[k].len < 2 * w

FirstWrap == updates = 1 /\ err \in {"ok", "TypeError"}

C5_WrapRoundTrip ==
    (FirstWrap /\ Unchunked(text, window_len)) => Join(lines, LF) = text

(* C6: after any sequence of width changes w1, ..., wn the display lines   *)
(* are wrap(referenceText, wn) computed on an empty list.                  *)
C6_LayoutRebuilt ==
    (updates >= 1 /\ err \in {"ok", "TypeError"})
        => lines = update_lines(<<>>, text, window_len).lines

(* C7: Delete with the cursor at (c, r) clears the cell at the pre-press   *)
(* cursor's linear index rowStart(r) + c and only then moves the cursor.   *)
Cleared(v, i) == [v EXCEPT ![CellAt(v, i)] = None]

C7_DeleteClearsPrePress ==
    [][(action_delete_right /\ err' = "ok")
          => value' = Cleared(value, RowStart(lines, cursor_y) + cursor_x)]_vars

(* C7 amended: Delete first moves the cursor as moveRight does and then    *)
(* clears the cell at the moved cursor's linear index; when the move or    *)
(* the write raises, no cell changes.                                      *)
C7_DeleteMovesThenClears ==
    [][action_delete_right =>
          LET moved == SetCursorX(lines, Cursor, cursor_x + 1, MaxDepth)
          IN  IF err' = "ok"
              THEN /\ cursor_x' = moved.x /\ cursor_y' = moved.y
                   /\ value' = Cleared(value, RowStart(lines, cursor_y') + cursor_x')
              ELSE value' = value]_vars

\* the last edit is a Delete that cleared a known cell, the one under the
\* cursor it moved, right of column 0
C7_Witness ==
    /\ err = "ok"
    /\ cursor_x > 0
    /\ queue # <<>>
    /\ LET e == queue[Len(queue)]
       IN  /\ e.op = "delete_right"
           /\ e.previous # e.after
           /\ value = e.after
           /\ HasCell(value, RowStart(lines, cursor_y) + cursor_x)
           /\ e.previous[CellAt(value, RowStart(lines, cursor_y) + cursor_x)] # None

(* C8: backspace with the cursor at (0,0) leaves the cursor at (0,0) and   *)
(* every buffer cell unchanged, here on a layout whose first line is not   *)
(* empty.                                                                  *)
C8_BackspaceAtOrigin ==
    [][(action_delete_left /\ PlainLayout /\ Len(lines[1]) > 0
          /\ cursor_x = 0 /\ cursor_y = 0)
          => (cursor_x' = 0 /\ cursor_y' = 0 /\ value' = value)]_vars

(* C9: the callback is called for each Changed message with previous = the *)
(* cells before the edit and current = the cells right after the edit, and *)
(* the buffer driving the display afterwards is what it returned.          *)
C9_CallbackSeesEdit ==
    [][(on_text_area_changed /\ on_change # "none")
          => LET e == Head(queue)
             IN  /\ Current(e) = e.after
                 /\ value' = Callback(on_change, e.previous, e.after)]_vars

(* C10: in every state the buffer driving the display has the length of    *)
(* the reference text.                                                     *)
C10_FixedLength == Len(value) = Len(text)

(* C11: navigation past an edge is a no-op and never an error: moveLeft    *)
(* at (0,0), moveUp on row 0, moveDown on the last row and moveRight on    *)
(* the last character of the last row raise nothing and leave both cursor  *)
(* coordinates unchanged, an empty first or last line included.            *)
LastColumn(y) == IF Len(lines[y + 1]) = 0 THEN 0 ELSE Len(lines[y + 1]) - 1

PastAnEdge ==
    \/ action_cursor_left /\ cursor_x = 0 /\ cursor_y = 0
    \/ action_cursor_up /\ cursor_y = 0
    \/ action_cursor_down /\ cursor_y = Len(lines) - 1
    \/ action_cursor_right /\ cursor_y = Len(lines) - 1
                           /\ cursor_x = LastColumn(cursor_y)

C11_EdgeNoOp ==
    [][(InLayout(cursor_x, cursor_y) /\ PastAnEdge)
          => (err' = "ok" /\ cursor_x' = cursor_x /\ cursor_y' = cursor_y)]_vars

(* C12: the validators are idempotent: validate_cursor_y applied to the    *)
(* result of validate_cursor_y(v), with nothing stored in between, returns *)
(* the same row and changes neither coordinate again; likewise             *)
(* validate_cursor_x.                                                      *)
Candidates == -1..(MaxNavLen + 1)

IdempotentRow(v) ==
    \A r1 \in {validate_cursor_y(lines, Cursor, v, MaxDepth)} :
        r1.c.err = "ok" =>
            \A r2 \in {validate_cursor_y(lines, r1.c, r1.ret, MaxDepth)} :
                r2.ret = r1.ret /\ r2.c = r1.c

IdempotentColumn(v) ==
    \A r1 \in {validate_cursor_x(lines, Cursor, v, MaxDepth)} :
        r1.c.err = "ok" =>
            \A r2 \in {validate_cursor_x(lines, r1.c, r1.ret, MaxDepth)} :
                r2.ret = r1.ret /\ r2.c = r1.c

C12_ValidatorIdempotent ==
    (Mounted /\ InLayout(cursor_x, cursor_y))
        => \A v \in Candidates : IdempotentRow(v) /\ IdempotentColumn(v)

(* C13: each input event is fully processed before the next is accepted:   *)
(* no edit mutates the buffer while the Changed message of an earlier edit *)
(* has been posted and not yet handled by the callback bridge.             *)
C13_EventAtomicity ==
    [][(Len(queue') > Len(queue) /\ value' # value) => queue = <<>>]_vars

(* C14: get(i), set(i, c) and clear(i) with i outside [0, n), every        *)
(* negative i included, fail with an out-of-range error and leave the      *)
(* buffer unchanged.                                                       *)
OutOfRange(call) ==
    /\ call.op \in {"get", "set", "del"}
    /\ ~(0 <= call.i /\ call.i < Len(call.before))

C14_OutOfRangeFails ==
    \A k \in 1..Len(hist) :
        OutOfRange(hist[k]) => (err = "IndexError" /\ value = hist[k].before)

(* C15: after moveUp or moveDown from a valid cursor state the column does *)
(* not exceed length - 1 of the line the cursor ends on (0 when that line  *)
(* is empty).                                                              *)
C15_VerticalReclamp ==
    [][((action_cursor_up \/ action_cursor_down)
          /\ InLayout(cursor_x, cursor_y)
          /\ err' = "ok" /\ 0 <= cursor_y' /\ cursor_y' < Len(lines))
          => cursor_x' <= LastColumn(cursor_y')]_vars

(* C16: moveDown from row r where line r+1 is empty and row r+2 exists     *)
(* ends on row r+2, and moveUp from row r where line r-1 is empty and row  *)
(* r-2 exists ends on row r-2, for every starting column.                  *)
OverBlankDown ==
    /\ action_cursor_down
    /\ cursor_y + 2 < Len(lines)
    /\ Len(lines[cursor_y + 2]) = 0

OverBlankUp ==
    /\ action_cursor_up
    /\ cursor_y - 2 >= 0
    /\ Len(lines[cursor_y]) = 0

C16_DoubleStep ==
    [][InLayout(cursor_x, cursor_y) =>
          /\ OverBlankDown => (err' = "ok" /\ cursor_y' = cursor_y + 2)
          /\ OverBlankUp => (err' = "ok" /\ cursor_y' = cursor_y - 2)]_vars

(* C17: moveRight from the last character of a row that is not the last    *)
(* and whose successor is not empty moves the cursor to column 0 of the    *)
(* next row; moveRight, or the advance after typing, from the last         *)
(* character of the last row leaves the cursor on that character; moveLeft *)
(* from column 0 of a row r > 0 whose predecessor is not empty moves the   *)
(* cursor to the last index of row r-1.                                    *)
OnLastCharacter ==
    /\ Len(lines[cursor_y + 1]) > 0
    /\ cursor_x = Len(lines[cursor_y + 1]) - 1

InteriorOverflow ==
    /\ action_cursor_right_do
    /\ OnLastCharacter
    /\ cursor_y + 1 < Len(lines)
    /\ Len(lines[cursor_y + 2]) > 0

FinalRowOverflow ==
    /\ action_cursor_right_do \/ \E char \in Keys : on_key_do(char)
    /\ OnLastCharacter
    /\ cursor_y + 1 = Len(lines)

LeftUnderflow ==
    /\ action_cursor_left_do
    /\ cursor_x = 0
    /\ cursor_y > 0
    /\ Len(lines[cursor_y]) > 0

C17_RowOverflow ==
    [][InLayout(cursor_x, cursor_y) =>
          /\ InteriorOverflow
                => (err' = "ok" /\ cursor_x' = 0 /\ cursor_y' = cursor_y + 1)
          /\ FinalRowOverflow
                => (cursor_x' = cursor_x /\ cursor_y' = cursor_y)
          /\ LeftUnderflow
                => (err' = "ok" /\ cursor_x' = Len(lines[cursor_y]) - 1
                                /\ cursor_y' = cursor_y - 1)]_vars

\* the last edit typed a character under the cursor, which is still on it:
\* the last character, right of column 0, of the last row
C17_Witness ==
    /\ err = "ok"
    /\ InLayout(cursor_x, cursor_y)
    /\ cursor_y + 1 = Len(lines)
    /\ OnLastCharacter
    /\ cursor_x > 0
    /\ queue # <<>>
    /\ LET e == queue[Len(queue)]
       IN  /\ e.op = "key"
           /\ value = e.after
           /\ HasCell(value, RowStart(lines, cursor_y) + cursor_x)
           /\ Differs(e.previous, e.after)
                  = {CellAt(value, RowStart(lines, cursor_y) + cursor_x)}

(* C18: from every valid cursor state each of moveLeft, moveRight, moveUp, *)
(* moveDown, backspace, delete and a click completes after finitely many   *)
(* validation steps: the two validators never re-enter each other without  *)
(* bound.                                                                  *)
C18_Terminates ==
    [][InLayout(cursor_x, cursor_y) => err' # "RecursionError"]_vars

(* C19: wrapping a text with maxWidth = 0 ends without error and gives the *)
(* terminator-based split of the text, no line chopped.                    *)
C19_ZeroWidth ==
    (updates = 1 /\ window_len = 0 /\ splitlines(text) # <<>>)
        => (err \in {"ok", "TypeError"} /\ lines = splitlines(text))

(* C20: splitting the buffer at the terminator positions of the paired    *)
(* text gives one group per line, in order: every cell that is not a       *)
(* terminator's is in exactly one group, the cells of the last line        *)
(* included, and a line of length zero gives an empty group.  Here for a   *)
(* width at which no group is chunked.                                     *)
Groups(t, v) ==
    LET raw == RawSpans(t, 1, 0, <<>>)
    IN  [k \in 1..Len(raw) |->
            SubSeq(v, raw[k].start + 1, raw[k].start + raw[k].len)]

C20_SplitPartition ==
    \A k \in 1..Len(hist) :
        (hist[k].op = "split_lines" /\ 2 * hist[k].i > Len(text))
            => hist[k].ret = Groups(text, hist[k].before)

====
